---- MODULE Spec2Model ----
(***************************************************************************)
(* Model of src/main.py: Wiener's continued-fraction attack on RSA, the    *)
(* integer square root it relies on, and the PKCS#1 v1.5 block scan.       *)
(*                                                                         *)
(* Every function of main.py is an operator computed the way the code      *)
(* computes it.  A Python value is a record [type, val]; a raised          *)
(* exception is a value of type "exc".  The two unbounded loops            *)
(* (get_whole_sqrt, _rational_to_contfrac) are also run one iteration per  *)
(* step, so that their termination is a property of the behaviours.        *)
(***************************************************************************)
EXTENDS Integers, Sequences, FiniteSets, TLC

VARIABLES pc, args, loc, ret

vars == <<pc, args, loc, ret>>

(***************************************************************************)
(* Bounds of the input domains.                                            *)
(***************************************************************************)
MaxSqrtN == 300

NegRange == 2

MaxSquareN == 400

MaxQuot == 3

MaxFracLen == 4

MaxXY == 30

MaxEN == 40

MaxPrime == 380

MaxModulus == 100000

MaxD == 6

MaxBlockLen == 6

(***************************************************************************)
(* Python values.                                                          *)
(***************************************************************************)
PyInt(v) == [type |-> "int", val |-> v]

PyFalse == [type |-> "bool", val |-> 0]

PyTrue == [type |-> "bool", val |-> 1]

PyNone == [type |-> "NoneType", val |-> 0]

PyRaise(name) == [type |-> "exc", val |-> name]

IsExc(o) == o.type = "exc"

\* bool(o) for int, bool and None: the test an `if o` performs
Truthy(o) == o.type \in {"int", "bool"} /\ o.val # 0

NoLocals == [x |-> 0]

(***************************************************************************)
(* get_bit_length                                                          *)
(***************************************************************************)
RECURSIVE BitLengthLoop(_, _)
BitLengthLoop(x, n) ==
    IF x > 0 THEN BitLengthLoop(x \div 2, n + 1) ELSE n

get_bit_length(x) ==
    IF ~(x >= 0) THEN PyRaise("AssertionError") ELSE PyInt(BitLengthLoop(x, 0))

(***************************************************************************)
(* get_whole_sqrt                                                          *)
(***************************************************************************)
RECURSIVE Pow2(_)
Pow2(k) == IF k = 0 THEN 1 ELSE 2 * Pow2(k - 1)

\* a, b = divmod(bits, 2); x = 2 ** (a + b), with the mistake of dropping b
NewtonSeedFloor(bits) == Pow2(bits \div 2)

\* a, b = divmod(get_bit_length(n), 2); x = 2 ** (a + b)
NewtonSeed(bits) == Pow2((bits \div 2) + (bits % 2))

\* y = (x + n // x) // 2
NewtonNext(x, n) == (x + (n \div x)) \div 2

RECURSIVE NewtonLoop(_, _)
NewtonLoop(x, n) ==
    LET y == NewtonNext(x, n)
    IN  IF y >= x THEN x ELSE NewtonLoop(y, n)

get_whole_sqrt(n) ==
    IF n < 0 THEN PyRaise("ValueError")
    ELSE IF n = 0 THEN PyInt(0)
    ELSE LET bits == get_bit_length(n)
         IN  IF IsExc(bits) THEN bits
             ELSE PyInt(NewtonLoop(NewtonSeed(bits.val), n))

(***************************************************************************)
(* get_whole_sqrt, one loop iteration per step                             *)
(***************************************************************************)
InitSqrt ==
    /\ pc = "call"
    /\ args \in [n : (0 - NegRange)..MaxSqrtN]
    /\ loc = NoLocals
    /\ ret = PyNone

\* lines 22-28: the two early exits and the seed
SqrtEnter ==
    /\ pc = "call"
    /\ IF args.n < 0
       THEN /\ pc' = "done"
            /\ ret' = PyRaise("ValueError")
            /\ loc' = loc
       ELSE IF args.n = 0
       THEN /\ pc' = "done"
            /\ ret' = PyInt(0)
            /\ loc' = loc
       ELSE LET bits == get_bit_length(args.n)
            IN  IF IsExc(bits)
                THEN /\ pc' = "done"
                     /\ ret' = bits
                     /\ loc' = loc
                ELSE /\ pc' = "loop"
                     /\ loc' = [x |-> NewtonSeed(bits.val)]
                     /\ ret' = ret
    /\ UNCHANGED args

\* lines 29-33: one pass of the while True loop
SqrtIter ==
    /\ pc = "loop"
    /\ LET y == NewtonNext(loc.x, args.n)
       IN  IF y >= loc.x
           THEN /\ pc' = "done"
                /\ ret' = PyInt(loc.x)
                /\ loc' = loc
           ELSE /\ pc' = "loop"
                /\ loc' = [x |-> y]
                /\ ret' = ret
    /\ UNCHANGED args

NextSqrt == SqrtEnter \/ SqrtIter

SpecSqrt == InitSqrt /\ [][NextSqrt]_vars

\* the interpreter keeps running the loop: a step that can be taken is taken
FairSpecSqrt == SpecSqrt /\ WF_vars(NextSqrt)

\* C3: for every nonnegative x, get_whole_sqrt(x) terminates and returns
\* r = floor(sqrt(x)): r*r <= x < (r+1)*(r+1), and get_whole_sqrt(0) = 0.
\* The whole-function operator returns the same value as the stepped loop.
C3_SqrtIsFloorRoot ==
    /\ [](pc = "done" /\ args.n >= 0 =>
            /\ ret.type = "int"
            /\ ret.val >= 0
            /\ ret.val * ret.val <= args.n
            /\ args.n < (ret.val + 1) * (ret.val + 1)
            /\ (args.n = 0 => ret.val = 0)
            /\ get_whole_sqrt(args.n) = ret)
    /\ <>(pc = "done")

\* a nonzero input whose Newton loop ran at least one improving step returned
C3_Witness ==
    pc = "done" /\ args.n = 200 /\ ret = PyInt(14) /\ loc.x = 14

(***************************************************************************)
(* is_perfect_square                                                       *)
(***************************************************************************)
\* is_perfect_square returning the root without the test `t * t == n`
is_perfect_square_unverified(n) ==
    LET h == n % 16
    IN  IF h > 9 THEN PyFalse
        ELSE IF h # 2 /\ h # 3 /\ h # 5 /\ h # 6 /\ h # 7 /\ h # 8
        THEN get_whole_sqrt(n)
        ELSE PyFalse

\* returns the root t (an int) or False; the caller tests it with `if t`
is_perfect_square(n) ==
    LET h == n % 16
    IN  IF h > 9 THEN PyFalse
        ELSE IF h # 2 /\ h # 3 /\ h # 5 /\ h # 6 /\ h # 7 /\ h # 8
        THEN LET t == get_whole_sqrt(n)
             IN  IF IsExc(t) THEN t
                 ELSE IF t.val * t.val = n THEN PyInt(t.val) ELSE PyFalse
        ELSE PyFalse

InitSquare ==
    /\ pc = "call"
    /\ args \in [n : 0..MaxSquareN]
    /\ loc = NoLocals
    /\ ret = PyNone

CallIsPerfectSquare ==
    /\ pc = "call"
    /\ pc' = "done"
    /\ ret' = is_perfect_square(args.n)
    /\ UNCHANGED <<args, loc>>

NextSquare == CallIsPerfectSquare

SpecSquare == InitSquare /\ [][NextSquare]_vars

IsSquareOf(n, k) == k * k = n

\* C4: is_perfect_square(k*k) reports "is a perfect square" with the root k
\* for every k >= 0 (k = 0 included), and reports "not a perfect square" for
\* every nonnegative n that is no square; the two outcomes are told apart by
\* the truth value of the result, which is what the caller tests.
C4_PerfectSquareReported ==
    pc = "done" =>
        IF \E k \in 0..args.n : IsSquareOf(args.n, k)
        THEN /\ Truthy(ret)
             /\ ret.type = "int"
             /\ IsSquareOf(args.n, ret.val)
        ELSE ~Truthy(ret) /\ ~IsExc(ret)

(***************************************************************************)
(* _contfrac_to_rational                                                   *)
(***************************************************************************)
\* for _ in range(-2, -len(frac) - 1, -1): num, denom = frac[_]*num + denom, num
\* frac[_] is the element at position i = len(frac) + _ + 1, counted from 1
RECURSIVE ContfracBackLoop(_, _, _, _)
ContfracBackLoop(frac, i, num, denom) ==
    IF i < 1 THEN <<num, denom>>
    ELSE ContfracBackLoop(frac, i - 1, frac[i] * num + denom, num)

\* the loop with the pair assignment split in two statements:
\* num = frac[_]*num + denom; denom = num
RECURSIVE ContfracBackLoopSeq(_, _, _, _)
ContfracBackLoopSeq(frac, i, num, denom) ==
    IF i < 1 THEN <<num, denom>>
    ELSE ContfracBackLoopSeq(frac, i - 1, frac[i] * num + denom,
                             frac[i] * num + denom)

contfrac_to_rational_seq(frac) ==
    IF Len(frac) = 0 THEN <<0, 1>>
    ELSE ContfracBackLoopSeq(frac, Len(frac) - 1, frac[Len(frac)], 1)

_contfrac_to_rational(frac) ==
    IF Len(frac) = 0 THEN <<0, 1>>
    ELSE ContfracBackLoop(frac, Len(frac) - 1, frac[Len(frac)], 1)

\* frac[0:i]
PyPrefix(frac, i) == SubSeq(frac, 1, i)

(***************************************************************************)
(* _convergents_from_contfrac                                              *)
(***************************************************************************)
\* for i in range(len(frac)): convs.append(_contfrac_to_rational(frac[0:i]))
_convergents_from_contfrac(frac) ==
    [j \in 1..Len(frac) |-> _contfrac_to_rational(PyPrefix(frac, j - 1))]

(***************************************************************************)
(* _rational_to_contfrac                                                   *)
(***************************************************************************)
PyList(q) == [type |-> "list", val |-> q]

PyTuple(q) == [type |-> "tuple", val |-> q]

\* x // y, raising on a zero divisor
PyFloorDiv(x, y) ==
    IF y = 0 THEN PyRaise("ZeroDivisionError") ELSE PyInt(x \div y)

\* x % y, raising on a zero divisor
PyMod(x, y) ==
    IF y = 0 THEN PyRaise("ZeroDivisionError") ELSE PyInt(x % y)

\* x, y = y, x - a * y
ContfracStep(x, y, a) == [x |-> y, y |-> x - a * y]

RECURSIVE ContfracLoop(_, _, _, _)
ContfracLoop(x, y, a, pquotients) ==
    IF a * y # x
    THEN LET nxt == ContfracStep(x, y, a)
             a2  == PyFloorDiv(nxt.x, nxt.y)
         IN  IF IsExc(a2) THEN a2
             ELSE ContfracLoop(nxt.x, nxt.y, a2.val, Append(pquotients, a2.val))
    ELSE PyList(pquotients)

_rational_to_contfrac(x, y) ==
    LET a == PyFloorDiv(x, y)
    IN  IF IsExc(a) THEN a
        ELSE ContfracLoop(x, y, a.val, <<a.val>>)

(***************************************************************************)
(* _rational_to_contfrac one loop iteration per step, followed by          *)
(* _contfrac_to_rational on the list it returned                           *)
(***************************************************************************)
InitCF ==
    /\ pc = "call"
    /\ args \in [x : 0..MaxXY, y : 0..MaxXY]
    /\ loc = [x |-> 0, y |-> 0, a |-> 0, pquotients |-> <<>>]
    /\ ret = PyNone

\* lines 92-93
ContfracEnter ==
    /\ pc = "call"
    /\ LET a == PyFloorDiv(args.x, args.y)
       IN  IF IsExc(a)
           THEN /\ pc' = "done"
                /\ ret' = a
                /\ loc' = loc
           ELSE /\ pc' = "loop"
                /\ loc' = [x |-> args.x, y |-> args.y, a |-> a.val,
                           pquotients |-> <<a.val>>]
                /\ ret' = ret
    /\ UNCHANGED args

\* lines 94-99: the loop test, and one pass of the body or the return
ContfracIter ==
    /\ pc = "loop"
    /\ IF loc.a * loc.y # loc.x
       THEN LET nxt == ContfracStep(loc.x, loc.y, loc.a)
                a2  == PyFloorDiv(nxt.x, nxt.y)
            IN  IF IsExc(a2)
                THEN /\ pc' = "done"
                     /\ ret' = a2
                     /\ loc' = loc
                ELSE /\ pc' = "loop"
                     /\ loc' = [x |-> nxt.x, y |-> nxt.y, a |-> a2.val,
                                pquotients |-> Append(loc.pquotients, a2.val)]
                     /\ ret' = ret
       ELSE /\ pc' = "expanded"
            /\ ret' = PyList(loc.pquotients)
            /\ loc' = loc
    /\ UNCHANGED args

\* the round trip: the full list of partial quotients is evaluated back
ContfracEvaluate ==
    /\ pc = "expanded"
    /\ pc' = "done"
    /\ ret' = PyTuple(_contfrac_to_rational(ret.val))
    /\ UNCHANGED <<args, loc>>

NextCF == ContfracEnter \/ ContfracIter \/ ContfracEvaluate

SpecCF == InitCF /\ [][NextCF]_vars

\* the interpreter keeps running the loop: a step that can be taken is taken
FairSpecCF == SpecCF /\ WF_vars(NextCF)

Divides(g, x) == x % g = 0

Gcd(x, y) ==
    CHOOSE g \in 1..x :
        /\ Divides(g, x) /\ Divides(g, y)
        /\ \A h \in 1..x : Divides(h, x) /\ Divides(h, y) => h <= g

\* C6: for all positive x, y, _rational_to_contfrac(x, y) terminates, and
\* _contfrac_to_rational of its whole output is (x/g, y/g) with g = gcd(x, y);
\* the stepped loop builds the list the whole-function operator returns.
C6_RoundTrip ==
    /\ [](pc = "done" /\ args.x > 0 /\ args.y > 0 =>
            /\ ret = PyTuple(<<args.x \div Gcd(args.x, args.y),
                               args.y \div Gcd(args.x, args.y)>>)
            /\ _rational_to_contfrac(args.x, args.y) = PyList(loc.pquotients))
    /\ <>(pc = "done")

\* a fraction that is not in lowest terms and needs several loop passes
C6_Witness ==
    /\ pc = "done"
    /\ args = [x |-> 12, y |-> 30]
    /\ loc.pquotients = <<0, 2, 2>>
    /\ ret = PyTuple(<<2, 5>>)

(***************************************************************************)
(* _convergents_from_contfrac applied to a list of partial quotients       *)
(***************************************************************************)
FracInputs == UNION {[1..m -> 0..MaxQuot] : m \in 0..MaxFracLen}

InitFrac ==
    /\ pc = "call"
    /\ args \in [frac : FracInputs]
    /\ loc = NoLocals
    /\ ret = PyNone

CallConvergents ==
    /\ pc = "call"
    /\ pc' = "done"
    /\ ret' = PyList(_convergents_from_contfrac(args.frac))
    /\ UNCHANGED <<args, loc>>

NextFrac == CallConvergents

SpecFrac == InitFrac /\ [][NextFrac]_vars

\* h_j = a_j*h_{j-1} + h_{j-2}, k_j = a_j*k_{j-1} + k_{j-2}, from j on,
\* with h1, k1 the values at j-1 and h2, k2 the values at j-2
RECURSIVE StdRecurrence(_, _, _, _, _, _)
StdRecurrence(frac, j, h1, h2, k1, k2) ==
    IF j > Len(frac) THEN <<h1, k1>>
    ELSE StdRecurrence(frac, j + 1, frac[j] * h1 + h2, h1,
                       frac[j] * k1 + k2, k1)

\* the value of a prefix: (0, 1) for the empty one, else (h, k) of the
\* recurrence started from h_{-1} = 1, h_{-2} = 0, k_{-1} = 0, k_{-2} = 1
StdConvergent(frac) ==
    IF Len(frac) = 0 THEN <<0, 1>> ELSE StdRecurrence(frac, 1, 1, 0, 0, 1)

\* one entry per prefix length 0..len(frac)
StdConvergentList(frac) ==
    [j \in 1..(Len(frac) + 1) |-> StdConvergent(PyPrefix(frac, j - 1))]

\* C5: _convergents_from_contfrac(frac) has one entry for each prefix length
\* 0..len(frac), so len(frac)+1 entries, the last being the value of the whole
\* list: entry 0 is (0, 1) and entry i is (h, k) of the standard recurrence
\* applied to frac[0:i].
C5_OneConvergentPerPrefix ==
    pc = "done" =>
        /\ Len(ret.val) = Len(args.frac) + 1
        /\ ret.val = StdConvergentList(args.frac)

(***************************************************************************)
(* wiener_attack                                                           *)
(***************************************************************************)
\* lines 107-115 without the test `if discr >= 0`
TestConvergentNoSignTest(e, n, k, d) ==
    IF k # 0
    THEN LET m == PyMod(e * d - 1, k)
         IN  IF IsExc(m) THEN m
             ELSE IF m.val = 0
             THEN LET phi   == (e * d - 1) \div k
                      s     == n - phi + 1
                      discr == s * s - 4 * n
                      t     == is_perfect_square(discr)
                  IN  IF IsExc(t) THEN t
                      ELSE IF Truthy(t) /\ (s + t.val) % 2 = 0
                      THEN PyTrue
                      ELSE PyFalse
             ELSE PyFalse
    ELSE PyFalse

\* lines 107-115: the body of the for loop for one convergent (k, d); True
\* when the loop returns d on it, False when the loop moves on
TestConvergent(e, n, k, d) ==
    IF k # 0
    THEN LET m == PyMod(e * d - 1, k)
         IN  IF IsExc(m) THEN m
             ELSE IF m.val = 0
             THEN LET phi   == (e * d - 1) \div k
                      s     == n - phi + 1
                      discr == s * s - 4 * n
                  IN  IF discr >= 0
                      THEN LET t == is_perfect_square(discr)
                           IN  IF IsExc(t) THEN t
                               ELSE IF Truthy(t) /\ (s + t.val) % 2 = 0
                               THEN PyTrue
                               ELSE PyFalse
                      ELSE PyFalse
             ELSE PyFalse
    ELSE PyFalse

\* the loop returning the numerator k of the convergent instead of d
RECURSIVE ScanConvergentsReturnK(_, _, _, _)
ScanConvergentsReturnK(e, n, convergents, i) ==
    IF i > Len(convergents) THEN PyNone
    ELSE LET k == convergents[i][1]
             d == convergents[i][2]
             r == TestConvergent(e, n, k, d)
         IN  IF IsExc(r) THEN r
             ELSE IF Truthy(r) THEN PyInt(k)
             ELSE ScanConvergentsReturnK(e, n, convergents, i + 1)

\* for k, d in convergents: ... return d; falling off the end returns None
RECURSIVE ScanConvergents(_, _, _, _)
ScanConvergents(e, n, convergents, i) ==
    IF i > Len(convergents) THEN PyNone
    ELSE LET k == convergents[i][1]
             d == convergents[i][2]
             r == TestConvergent(e, n, k, d)
         IN  IF IsExc(r) THEN r
             ELSE IF Truthy(r) THEN PyInt(d)
             ELSE ScanConvergents(e, n, convergents, i + 1)

wiener_attack(e, n) ==
    LET frac == _rational_to_contfrac(e, n)
    IN  IF IsExc(frac) THEN frac
        ELSE ScanConvergents(e, n, _convergents_from_contfrac(frac.val), 1)

InitAttack ==
    /\ pc = "call"
    /\ args \in [e : 0..MaxEN, n : 0..MaxEN]
    /\ loc = NoLocals
    /\ ret = PyNone

CallWienerAttack ==
    /\ pc = "call"
    /\ pc' = "done"
    /\ ret' = wiener_attack(args.e, args.n)
    /\ UNCHANGED <<args, loc>>

NextAttack == CallWienerAttack

Spec == InitAttack /\ [][NextAttack]_vars

\* C9 as stated: for all nonnegative e and n the attack ends with a
\* candidate d or with None, never with an error.
C9_NeverErrorsAnyModulus ==
    pc = "done" => ~IsExc(ret)

\* C9 amended: for all e >= 0 and all n >= 1 the attack ends with a
\* candidate d or with None, never with an error.
C9_NeverErrorsPositiveModulus ==
    pc = "done" /\ args.n >= 1 => ret.type \in {"int", "NoneType"}

\* the convergents the attack scans, and the discriminant it forms on (k, d)
ScannedConvergents(e, n) ==
    _convergents_from_contfrac(_rational_to_contfrac(e, n).val)

Discriminant(e, n, k, d) ==
    LET s == n - ((e * d - 1) \div k) + 1
    IN  s * s - 4 * n

\* the attack went past a convergent with k = 0 and past one whose
\* discriminant is negative, and ended without a candidate
C9_Witness ==
    /\ pc = "done"
    /\ args.n >= 1
    /\ ret = PyNone
    /\ LET convs == ScannedConvergents(args.e, args.n)
       IN  /\ \E i \in 1..Len(convs) : convs[i][1] = 0
           /\ \E i \in 1..Len(convs) :
                 /\ convs[i][1] # 0
                 /\ (args.e * convs[i][2] - 1) % convs[i][1] = 0
                 /\ Discriminant(args.e, args.n, convs[i][1], convs[i][2]) < 0

Abs(v) == IF v < 0 THEN 0 - v ELSE v

\* the convergents of e/n, one per prefix of its partial quotients
ConvergentsOf(e, n) == StdConvergentList(_rational_to_contfrac(e, n).val)

\* the conditions of the first-match contract on a convergent (k, d)
Satisfies(e, n, k, d) ==
    /\ k # 0
    /\ (e * d - 1) % k = 0
    /\ LET s     == n - ((e * d - 1) \div k) + 1
           discr == s * s - 4 * n
       IN  /\ discr >= 0
           /\ \E t \in 0..Abs(s) : t * t = discr /\ (s + t) % 2 = 0

\* C2: for positive e, n the attack returns the d of the lowest-index
\* convergent (k, d) in the list it scans with k # 0, (e*d - 1) mod k = 0, discr >= 0,
\* discr a perfect square with root t (t = 0 included) and s + t even; it
\* returns nothing iff no convergent satisfies these conditions.
C2_FirstMatch ==
    pc = "done" /\ args.e >= 1 /\ args.n >= 1 =>
        LET convs == ScannedConvergents(args.e, args.n)
            hits  == {i \in 1..Len(convs) :
                         Satisfies(args.e, args.n, convs[i][1], convs[i][2])}
        IN  IF hits = {}
            THEN ret = PyNone
            ELSE \E i \in hits :
                    /\ \A j \in hits : i <= j
                    /\ ret = PyInt(convs[i][2])

\* C10: whenever the attack returns d for positive e, n, d is the denominator
\* of a convergent (k, d) of e/n with k > 0, and there are integers p # q with
\* p*q = n, p + q = n - (e*d - 1)/k + 1 and k*(p-1)*(q-1) = e*d - 1.
C10_CandidateFactorsModulus ==
    pc = "done" /\ args.e >= 1 /\ args.n >= 1 /\ ret.type = "int" =>
        LET convs == ConvergentsOf(args.e, args.n)
        IN  \E i \in 1..Len(convs) :
                LET k == convs[i][1]
                    d == convs[i][2]
                IN  /\ d = ret.val
                    /\ k > 0
                    /\ (args.e * d - 1) % k = 0
                    /\ \E p \in (0 - args.n)..args.n :
                       \E q \in (0 - args.n)..args.n :
                          /\ p # q
                          /\ p * q = args.n
                          /\ p + q = args.n - ((args.e * d - 1) \div k) + 1
                          /\ k * (p - 1) * (q - 1) = args.e * d - 1

\* a candidate other than 1 was returned
C10_Witness ==
    pc = "done" /\ args = [e |-> 11, n |-> 32] /\ ret = PyInt(2)

(***************************************************************************)
(* wiener_attack on the public part (e, n) of RSA keys with a small        *)
(* private exponent.  loc holds the secret part of the key: p, q, d.       *)
(***************************************************************************)
IsPrime(v) == v >= 2 /\ \A i \in 2..(v - 1) : v % i # 0

Primes == {v \in 2..MaxPrime : IsPrime(v)}

\* 3*d < n^(1/4)
WienerBound(d, n) == 81 * d * d * d * d < n

InitRSA ==
    \E p \in Primes, q \in Primes, d \in 1..MaxD, k \in 0..(MaxD - 1) :
        LET n   == p * q
            phi == (p - 1) * (q - 1)
        IN  /\ q < p /\ p < 2 * q
            /\ n <= MaxModulus
            /\ WienerBound(d, n)
            /\ k < d
            /\ (1 + k * phi) % d = 0
            /\ LET e == (1 + k * phi) \div d
               IN  /\ 0 < e /\ e < phi
                   /\ (e * d) % phi = 1
                   /\ args = [e |-> e, n |-> n]
            /\ loc = [p |-> p, q |-> q, d |-> d]
            /\ pc = "call"
            /\ ret = PyNone

CallWienerAttackOnKey ==
    /\ pc = "call"
    /\ pc' = "done"
    /\ ret' = wiener_attack(args.e, args.n)
    /\ UNCHANGED <<args, loc>>

NextRSA == CallWienerAttackOnKey

SpecRSA == InitRSA /\ [][NextRSA]_vars

\* C1 as stated: for every n = p*q with q < p < 2q and every key (e, d) with
\* 0 < e < phi(n), e*d mod phi(n) = 1 and 81*d^4 < n, d >= 1, the attack
\* returns exactly d.
C1_RecoversEveryExponent ==
    pc = "done" => ret = PyInt(loc.d)

\* C1 amended: the same for every such d >= 2; in particular
\* wiener_attack(17993, 90581) returns the d with 17993*d mod phi(90581) = 1.
C1_RecoversExponentAboveOne ==
    pc = "done" /\ loc.d >= 2 => ret = PyInt(loc.d)

\* the toy key: n = 90581 = 379 * 239, e = 17993, d = 5
C1_Witness ==
    /\ pc = "done"
    /\ args = [e |-> 17993, n |-> 90581]
    /\ loc = [p |-> 379, q |-> 239, d |-> 5]
    /\ (17993 * ret.val) % (378 * 238) = 1
    /\ ret = PyInt(5)

(***************************************************************************)
(* is_valid_pkcs_1_5_signature and extract_message_pkcs_1_5                *)
(***************************************************************************)
PyBytes(q) == [type |-> "bytes", val |-> q]

PyBool(b) == IF b THEN PyTrue ELSE PyFalse

\* seq[i], i counted from 0, raising past the end
PyIndex(seq, i) ==
    IF i >= Len(seq) THEN PyRaise("IndexError") ELSE PyInt(seq[i + 1])

\* seq[i:], i counted from 0
PySliceFrom(seq, i) ==
    IF i >= Len(seq) THEN <<>> ELSE SubSeq(seq, i + 1, Len(seq))

\* pack("B", v): the one-byte string holding v
pack_B(v) == <<v>>

\* for byte in tail: if pack("B", byte) == b'\x00': return True
RECURSIVE HasZeroByte(_, _)
HasZeroByte(tail, i) ==
    IF i > Len(tail) THEN FALSE
    ELSE IF pack_B(tail[i]) = <<0>> THEN TRUE
    ELSE HasZeroByte(tail, i + 1)

\* the validator looping over bytes_array instead of bytes_array[2:]
is_valid_pkcs_1_5_signature_whole(bytes_array) ==
    LET b0 == PyIndex(bytes_array, 0)
        b1 == PyIndex(bytes_array, 1)
    IN  IF IsExc(b0) THEN b0
        ELSE IF IsExc(b1) THEN b1
        ELSE IF pack_B(b0.val) = <<0>> /\ pack_B(b1.val) = <<2>>
        THEN PyBool(HasZeroByte(bytes_array, 1))
        ELSE PyFalse

is_valid_pkcs_1_5_signature(bytes_array) ==
    LET b0 == PyIndex(bytes_array, 0)
        b1 == PyIndex(bytes_array, 1)
    IN  IF IsExc(b0) THEN b0
        ELSE IF IsExc(b1) THEN b1
        ELSE IF pack_B(b0.val) = <<0>> /\ pack_B(b1.val) = <<2>>
        THEN PyBool(HasZeroByte(PySliceFrom(bytes_array, 2), 1))
        ELSE PyFalse

\* for byte_pos, byte in enumerate(tail, start=...): the byte_pos of the
\* first zero byte, or the initial end_byte_pos = 0 when there is none
RECURSIVE FindEndBytePos(_, _, _)
FindEndBytePos(tail, i, byte_pos) ==
    IF i > Len(tail) THEN 0
    ELSE IF pack_B(tail[i]) = <<0>> THEN byte_pos
    ELSE FindEndBytePos(tail, i + 1, byte_pos + 1)

\* the extraction with enumerate(..., start=2): the separator is kept
extract_message_pkcs_1_5_start2(bytes_array) ==
    LET end_byte_pos == FindEndBytePos(PySliceFrom(bytes_array, 2), 1, 2)
    IN  PyBytes(PySliceFrom(bytes_array, end_byte_pos))

extract_message_pkcs_1_5(bytes_array) ==
    LET end_byte_pos == FindEndBytePos(PySliceFrom(bytes_array, 2), 1, 2 + 1)
    IN  PyBytes(PySliceFrom(bytes_array, end_byte_pos))

ByteVals == {0, 2, 3, 5, 6, 65, 66}

Blocks == UNION {[1..m -> ByteVals] : m \in 0..MaxBlockLen}

InitPKCS ==
    /\ pc = "call"
    /\ args \in [block : Blocks]
    /\ loc = NoLocals
    /\ ret = PyNone

CallIsValidSignature ==
    /\ pc = "call"
    /\ pc' = "validated"
    /\ ret' = is_valid_pkcs_1_5_signature(args.block)
    /\ UNCHANGED <<args, loc>>

CallExtractMessage ==
    /\ pc = "call"
    /\ pc' = "extracted"
    /\ ret' = extract_message_pkcs_1_5(args.block)
    /\ UNCHANGED <<args, loc>>

NextPKCS == CallIsValidSignature \/ CallExtractMessage

SpecPKCS == InitPKCS /\ [][NextPKCS]_vars

\* positions, counted from 0, of the zero bytes at index 2 or later
SeparatorPositions(block) ==
    {j \in 2..(Len(block) - 1) : block[j + 1] = 0}

\* C7: extract_message_pkcs_1_5(block) returns block[j+1:] for the smallest
\* j >= 2 with block[j] = 0x00 (the separator excluded, indexes 0 and 1 never
\* taken as the separator), and the whole block when there is no such j.
C7_MessageAfterFirstSeparator ==
    pc = "extracted" =>
        LET seps == SeparatorPositions(args.block)
        IN  IF seps = {}
            THEN ret = PyBytes(args.block)
            ELSE \E j \in seps :
                    /\ \A i \in seps : j <= i
                    /\ ret.type = "bytes"
                    /\ Len(ret.val) = Len(args.block) - (j + 1)
                    /\ \A i \in 1..Len(ret.val) :
                          ret.val[i] = args.block[j + 1 + i]

\* [0x00,0x02,0x05,0x00,0x41,0x42] yields [0x41,0x42]
C7_Witness ==
    /\ pc = "extracted"
    /\ args.block = <<0, 2, 5, 0, 65, 66>>
    /\ ret = PyBytes(<<65, 66>>)

\* C8: for a block of length >= 2, is_valid_pkcs_1_5_signature(block) is true
\* iff block[0] = 0x00, block[1] = 0x02 and some index >= 2 holds 0x00; for a
\* block of length < 2 it raises instead of returning a boolean.
C8_ValidIffHeaderAndSeparator ==
    pc = "validated" =>
        IF Len(args.block) >= 2
        THEN ret = PyBool(/\ args.block[1] = 0
                          /\ args.block[2] = 2
                          /\ SeparatorPositions(args.block) # {})
        ELSE IsExc(ret)

\* a block with the header and a separator was accepted
C8_Witness ==
    /\ pc = "validated"
    /\ args.block = <<0, 2, 5, 0, 65, 66>>
    /\ ret = PyTrue

====
